---- MODULE Spec2Model ----
(***************************************************************************)
(* Model of clippy_lints/src/needless_pass_by_value.rs: the lint pass      *)
(* NeedlessPassByValue::check_fn, the usage tracker MovedVariablesCtxt     *)
(* that the expression-use visitor drives, and the suggestion closure.     *)
(***************************************************************************)
EXTENDS Integers, Sequences, FiniteSets, TLC

VARIABLES
    pc,               \* position of check_fn
    func,             \* the function check_fn was called with
    moved_vars,       \* MovedVariablesCtxt.moved_vars
    spans_need_deref, \* MovedVariablesCtxt.spans_need_deref
    moved_roots,      \* history: bindings at the root of a place a moving event named
    nev,              \* number of events consume_body has delivered
    idx,              \* index of the next parameter of the loop
    arg,              \* the parameter the loop body last ran for
    flagged,          \* indices of the parameters a diagnostic was emitted for
    sugg,             \* what the suggestion closure last built
    ev,               \* the event the visitor is delivering (tracker specification)
    id,               \* non_moving_pat: the local `id` of the ancestor walk
    wpc               \* non_moving_pat: position of the ancestor walk

vars == <<pc, func, moved_vars, spans_need_deref, moved_roots, nev, idx, arg,
          flagged, sugg, ev, id, wpc>>

(***************************************************************************)
(* Bounds                                                                  *)
(***************************************************************************)
MaxParams == 2
MaxDepth == 2
MaxEvents == 1
MaxPrior == 1

(***************************************************************************)
(* Places (mem_categorization::cmt_) and the HIR parent map                *)
(***************************************************************************)
\* NodeIds of the bindings of the parameters: parameter idx binds idx + 1.
Bindings == 1..MaxParams

RECURSIVE SeqsUpTo(_, _)
SeqsUpTo(S, n) ==
    IF n = 0 THEN {<<>>}
    ELSE LET shorter == SeqsUpTo(S, n - 1)
         IN  shorter \cup {Append(s, x) : s \in {t \in shorter : Len(t) = n - 1}, x \in S}

\* Categorization variants that wrap another cmt.
ProjKinds == {"Interior", "Downcast", "Deref"}

\* Categorization variants that wrap nothing.
RootCats == [cat : {"Local"}, vid : Bindings] \cup {[cat |-> "Rvalue", vid |-> 0]}

\* The projections the model draws places from, outermost first: x, x.f,
\* (x as V), *x, (x as V).f and (*x).f.
ProjChains ==
    {<<>>, <<"Interior">>, <<"Downcast">>, <<"Deref">>,
     <<"Interior", "Downcast">>, <<"Interior", "Deref">>}

\* A cmt_: its categorization, outermost projection first, down to the root.
Cmts == [projs : ProjChains, root : RootCats]

\* The kinds of HIR node the ancestor walk tells apart.
NodeKinds == {"ExprMatch", "StmtLocal", "Other"}

\* A node is named by the kinds on the path from the root of the HIR to it.
HirNodes == SeqsUpTo(NodeKinds, MaxDepth)

\* The patterns the visitor can report: a pattern below any node.
PatIds == {Append(n, "Pat") : n \in HirNodes}

\* hir().get_parent_node: the root is its own parent.
get_parent_node(n) == IF n = <<>> THEN n ELSE SubSeq(n, 1, Len(n) - 1)

\* hir().find: the node's kind; the root of the map holds no node.
find(n) == IF n = <<>> THEN "None" ELSE n[Len(n)]

\* Source position of the first parameter-independent span of the body.
BodyLo == MaxParams + 1

\* Span of the discriminee of a match (c.span) or of the initializer of a
\* let (local.init.span) at node n; spans are ordered by position.
ExprSpan(n) == BodyLo + Len(n)

(***************************************************************************)
(* Usage events: the calls the expression-use visitor makes on the         *)
(* euv::Delegate                                                           *)
(***************************************************************************)
NoPat == <<>>
NoCmt == [projs |-> <<>>, root |-> [cat |-> "Rvalue", vid |-> 0]]
NoEvent == [h |-> "none", pat |-> NoPat, cmt |-> NoCmt, mode |-> "none"]

ConsumeModes == {"Move", "Copy"}
MatchModes == {"MovingMatch", "BorrowingMatch", "CopyingMatch"}

Events ==
    {[h |-> "consume", pat |-> NoPat, cmt |-> c, mode |-> m] :
        c \in Cmts, m \in ConsumeModes}
    \cup {[h |-> "matched_pat", pat |-> p, cmt |-> c, mode |-> m] :
        p \in PatIds, c \in Cmts, m \in MatchModes}
    \cup {[h |-> "consume_pat", pat |-> NoPat, cmt |-> c, mode |-> m] :
        c \in Cmts, m \in ConsumeModes}
    \cup {[h |-> k, pat |-> NoPat, cmt |-> c, mode |-> "none"] :
        k \in {"borrow", "mutate"}, c \in Cmts}
    \cup {[h |-> "decl_without_init", pat |-> NoPat, cmt |-> NoCmt, mode |-> "none"]}

(***************************************************************************)
(* MovedVariablesCtxt                                                      *)
(***************************************************************************)
\* MovedVariablesCtxt::new
new == [moved_vars |-> {}, spans_need_deref |-> <<>>]

\* cmt.cat
Cat(cmt) == IF cmt.projs = <<>> THEN cmt.root.cat ELSE Head(cmt.projs)

RECURSIVE unwrap_downcast_or_interior(_)
unwrap_downcast_or_interior(cmt) ==
    IF Cat(cmt) \in {"Downcast", "Interior"}
    THEN unwrap_downcast_or_interior([cmt EXCEPT !.projs = Tail(@)])
    ELSE cmt

\* moved_vars.insert(vid) after the unwrapping, with the set overwritten.
move_common_overwrite(t, cmt) ==
    LET c == unwrap_downcast_or_interior(cmt)
    IN  IF Cat(c) = "Local"
        THEN [t EXCEPT !.moved_vars = {c.root.vid}]
        ELSE t

move_common(t, cmt) ==
    LET c == unwrap_downcast_or_interior(cmt)
    IN  IF Cat(c) = "Local"
        THEN [t EXCEPT !.moved_vars = @ \cup {c.root.vid}]
        ELSE t

\* spans_need_deref.entry(vid).or_insert_with(FxHashSet::default).insert(span)
entry_insert(spans, vid, span) ==
    [b \in DOMAIN spans \cup {vid} |->
        IF b = vid
        THEN (IF vid \in DOMAIN spans THEN spans[vid] ELSE {}) \cup {span}
        ELSE spans[b]]

\* The loop's exit test with the root never recognised.
AtRootNever(n, parent) == FALSE

\* `if id == parent { return; }`
AtRoot(n, parent) == n = parent

\* The body of the loop after `id = parent`: the match on hir().find(id).
VisitNode(spans, vid, n) ==
    CASE find(n) = "ExprMatch" -> entry_insert(spans, vid, ExprSpan(n))
      [] find(n) = "StmtLocal" -> entry_insert(spans, vid, ExprSpan(n))
      [] OTHER -> spans

\* The loop of non_moving_pat from `id` up to its return.
RECURSIVE WalkFrom(_, _, _)
WalkFrom(spans, vid, n) ==
    LET parent == get_parent_node(n)
    IN  IF AtRoot(n, parent)
        THEN spans
        ELSE WalkFrom(VisitNode(spans, vid, parent), vid, parent)

non_moving_pat(t, matched, cmt) ==
    LET c == unwrap_downcast_or_interior(cmt)
    IN  IF Cat(c) = "Local"
        THEN [t EXCEPT !.spans_need_deref = WalkFrom(@, c.root.vid, matched)]
        ELSE t

\* Delegate::consume with the mode ignored.
consume_any_mode(t, e) == move_common(t, e.cmt)

consume(t, e) == IF e.mode = "Move" THEN move_common(t, e.cmt) ELSE t

matched_pat(t, e) ==
    IF e.mode = "MovingMatch"
    THEN move_common(t, e.cmt)
    ELSE non_moving_pat(t, e.pat, e.cmt)

consume_pat(t, e) == IF e.mode = "Move" THEN move_common(t, e.cmt) ELSE t

borrow(t, e) == t

mutate(t, e) == t

decl_without_init(t, e) == t

\* The visitor's call of the delegate for one event.
OnEvent(t, e) ==
    CASE e.h = "consume" -> consume(t, e)
      [] e.h = "matched_pat" -> matched_pat(t, e)
      [] e.h = "consume_pat" -> consume_pat(t, e)
      [] e.h = "borrow" -> borrow(t, e)
      [] e.h = "mutate" -> mutate(t, e)
      [] e.h = "decl_without_init" -> decl_without_init(t, e)

\* The tracker as the two state variables hold it.
Tracker == [moved_vars |-> moved_vars, spans_need_deref |-> spans_need_deref]

(***************************************************************************)
(* What check_fn is called with                                            *)
(***************************************************************************)
\* The trait and lang-item lookups behind the need! macro.
Lookups == {"borrow_trait", "fn_trait", "fn_once_trait", "fn_mut_trait",
            "range_argument_trait", "sized_trait"}

DeriveAttr == [name |-> "proc_macro_derive", list |-> TRUE]

\* kind: FnKind; abi: header.abi; attrs: the attributes of an item fn;
\* parent: hir().find(hir().get_parent_node(node_id)); missing: the lookup
\* that returns None, if any.
Functions ==
    [in_macro : BOOLEAN, kind : {"ItemFn"}, abi : {"Rust", "C"},
     attrs : {<<>>, <<DeriveAttr>>}, parent : {"Mod"},
     missing : Lookups \cup {"none"}]
    \cup [in_macro : BOOLEAN, kind : {"Method"}, abi : {"Rust", "C"},
          attrs : {<<>>}, parent : {"InherentImpl", "TraitImpl", "Trait"},
          missing : Lookups \cup {"none"}]
    \cup [in_macro : BOOLEAN, kind : {"Closure"}, abi : {"Rust"},
          attrs : {<<>>}, parent : {"Expr"},
          missing : Lookups \cup {"none"}]

NoFn == [in_macro |-> FALSE, kind |-> "none", abi |-> "Rust", attrs |-> <<>>,
         parent |-> "none", missing |-> "none"]

\* The match on `kind`: TRUE when it returns.
ReturnsOnKind(f) ==
    CASE f.kind = "ItemFn" ->
            \/ f.abi # "Rust"
            \/ \E i \in DOMAIN f.attrs :
                  f.attrs[i].list /\ f.attrs[i].name = "proc_macro_derive"
      [] f.kind = "Method" -> FALSE
      [] OTHER -> TRUE

\* "Exclude non-inherent impls": the parent is an impl of a trait or a trait.
NonInherent(f) == f.parent \in {"TraitImpl", "Trait"}

\* check_fn returns before it reads the body.
Returns(f) ==
    \/ f.in_macro
    \/ ReturnsOnKind(f)
    \/ NonInherent(f)
    \/ f.missing # "none"

(***************************************************************************)
(* Types, trait facts and the predicates of the function                   *)
(***************************************************************************)
Ty(n) == [name |-> n, ref |-> FALSE]

\* tcx.mk_imm_ref
mk_imm_ref(ty) == [ty EXCEPT !.ref = TRUE]

\* &mut T; i32; F: Fn(); B: Borrow<str>; A: AsRef<str>; D: AsRef<str> + Default;
\* T without bounds; a local struct Foo; String; Vec<E>.
TypeNames == {"&mut T", "i32", "F", "B", "A", "D", "T", "Foo", "String", "Vec"}
Types == {Ty(n) : n \in TypeNames}

is_mutable_pointer(ty) == ty.name = "&mut T" /\ ~ty.ref

is_copy(ty) == ty.ref \/ ty.name = "i32"

\* implements_trait(cx, ty, trait, ..) as the type checker answers it.
Impls ==
    {<<Ty("F"), "Fn">>, <<Ty("F"), "FnMut">>, <<Ty("F"), "FnOnce">>,
     <<mk_imm_ref(Ty("F")), "Fn">>,
     <<Ty("B"), "Borrow">>,
     <<Ty("A"), "AsRef">>, <<mk_imm_ref(Ty("A")), "AsRef">>,
     <<Ty("D"), "AsRef">>, <<mk_imm_ref(Ty("D")), "AsRef">>,
     <<Ty("D"), "Default">>,
     <<Ty("String"), "Clone">>, <<mk_imm_ref(Ty("String")), "Clone">>,
     <<Ty("i32"), "Copy">>}
    \cup {<<ty, "Sized">> : ty \in Types \cup {mk_imm_ref(t) : t \in Types}}

implements_trait(ty, trait) == <<ty, trait>> \in Impls

whitelisted_traits == {"Fn", "FnOnce", "FnMut", "RangeArgument"}

\* traits::elaborate_predicates(cx.param_env.caller_bounds)
Pred(k, ty, tr, g) == [kind |-> k, self_ty |-> ty, trait |-> tr, global |-> g]

caller_bounds ==
    {Pred("Trait", Ty(n), "Sized", FALSE) : n \in {"F", "B", "A", "D", "T"}}
    \cup {Pred("Trait", Ty("F"), "Fn", FALSE),
          Pred("Trait", Ty("F"), "FnMut", FALSE),
          Pred("Trait", Ty("F"), "FnOnce", FALSE),
          Pred("Trait", Ty("B"), "Borrow", FALSE),
          Pred("Trait", Ty("A"), "AsRef", FALSE),
          Pred("Trait", Ty("D"), "AsRef", FALSE),
          Pred("Trait", Ty("D"), "Default", FALSE),
          Pred("Trait", Ty("String"), "Clone", TRUE),
          Pred("TypeOutlives", Ty("T"), "none", FALSE)}

\* `preds`: the trait predicates that are not global and not Sized.
preds ==
    {p \in caller_bounds : ~p.global /\ p.kind = "Trait" /\ p.trait # "Sized"}

\* The predicates whose self type is the parameter's type.
preds_of(ty) == {p \in preds : p.self_ty = ty}

implements_borrow_trait(ty) == \E p \in preds_of(ty) : p.trait = "Borrow"

all_borrowable_trait(ty) ==
    /\ preds_of(ty) # {}
    /\ \A p \in preds_of(ty) : implements_trait(mk_imm_ref(ty), p.trait)

(***************************************************************************)
(* Parameters                                                              *)
(***************************************************************************)
\* The `span` check_fn is given.
FnSpan == 0

\* The span of a parameter that has a span of its own.
ArgSpan(i) == i + 1

BindingModes == {"Unannotated", "Mutable", "Ref", "RefMut"}

\* arg.pat.node: PatKind::Binding(mode, canonical_id, ident) or another pattern.
Binding(m, i, n) == [kind |-> "Binding", mode |-> m, canonical_id |-> i, ident |-> n]
OtherPat == [kind |-> "Tuple", mode |-> "none", canonical_id |-> 0, ident |-> "none"]

\* The parameters that can stand at index i of f: `self` only heads a method.
Args(i, f) ==
    [span : {FnSpan, ArgSpan(i)}, ty : Types,
     pat : {Binding(m, i + 1, "x") : m \in BindingModes} \cup {OtherPat}]
    \cup (IF i = 0 /\ f.kind = "Method"
          THEN [span : {FnSpan, ArgSpan(i)}, ty : {Ty("Foo")},
                pat : {Binding(m, i + 1, "self") : m \in {"Unannotated", "Mutable"}}]
          ELSE {})

NoArg == [span |-> FnSpan, ty |-> Ty("none"), pat |-> OtherPat]

\* utils::is_self
is_self(a) == a.pat.kind = "Binding" /\ a.pat.ident = "self"

\* The conditions of the if_chain up to the `then`.
Chain(a, moved) ==
    /\ ~is_self(a)
    /\ ~is_mutable_pointer(a.ty)
    /\ ~is_copy(a.ty)
    /\ ~\E t \in whitelisted_traits : implements_trait(a.ty, t)
    /\ ~implements_borrow_trait(a.ty)
    /\ ~all_borrowable_trait(a.ty)
    /\ a.pat.kind = "Binding"
    /\ a.pat.canonical_id \notin moved

\* The loop body reaches span_lint_and_then for this parameter.
Lints(a, i, moved) ==
    /\ ~(i = 0 /\ is_self(a))
    /\ Chain(a, moved)
    /\ a.pat.mode \notin {"Mutable", "RefMut"}

(***************************************************************************)
(* The suggestion closure `sugg`                                           *)
(***************************************************************************)
Edit(sp, text) == [span |-> sp, text |-> text]

NoSugg == [help |-> FALSE, kind |-> "none", edits |-> <<>>]

\* What get_spans returns: None, or the spans of the calls to rewrite.
CloneSpans ==
    {[some |-> FALSE, spans |-> <<>>],
     [some |-> TRUE, spans |-> <<>>],
     [some |-> TRUE, spans |-> <<BodyLo>>]}

\* The orders in which a hash set can hand out its elements.
Orders(S) == {q \in [1..Cardinality(S) -> S] : \A x \in S : \E i \in DOMAIN q : q[i] = x}

\* Insertion of e behind the elements of the sorted q whose key is not larger.
RECURSIVE InsertByKey(_, _)
InsertByKey(q, e) ==
    IF q = <<>> THEN <<e>>
    ELSE IF q[Len(q)].span <= e.span THEN Append(q, e)
    ELSE Append(InsertByKey(SubSeq(q, 1, Len(q) - 1), e), q[Len(q)])

RECURSIVE SortFrom(_, _)
SortFrom(done, rest) ==
    IF rest = <<>> THEN done ELSE SortFrom(InsertByKey(done, Head(rest)), Tail(rest))

\* The edits left in the order they were pushed.
unsorted(q) == q

\* spans.sort_by_key(|&(span, _)| span): a stable sort on the span.
sort_by_key(q) == SortFrom(<<>>, q)

\* spans_need_deref.get(&canonical_id)
deref_span(spans, a) ==
    IF a.pat.canonical_id \in DOMAIN spans
    THEN [some |-> TRUE, set |-> spans[a.pat.canonical_id]]
    ELSE [some |-> FALSE, set |-> {}]

\* ty is an Adt defined in this crate that could derive Copy.
copy_help(a, copyable) == a.ty.name = "Foo" /\ copyable

\* The Vec branch: its if_chain holds.
TakesVec(a, clones, path_vec) ==
    a.ty.name = "Vec" /\ ~a.ty.ref /\ clones.some /\ path_vec

\* The String branch.
TakesString(a, clones) == a.ty.name = "String" /\ ~a.ty.ref /\ clones.some

CallEdits(clones, text) == [i \in DOMAIN clones.spans |-> Edit(clones.spans[i], text)]

\* The generic branch: the vector handed to multispan_sugg.
GenericEdits(a, ds, order) ==
    LET first == <<Edit(a.span, "&_")>>
    IN  IF ds.some
        THEN sort_by_key(first \o [i \in DOMAIN order |-> Edit(order[i], "*_")])
        ELSE first

\* `assert!(deref_span.is_none())` fails.
Panicked == [help |-> FALSE, kind |-> "panic", edits |-> <<>>]

\* The closure: Panicked when its assertion fails, else what it built.
Suggest(a, spans, copyable, clones, path_vec, order) ==
    LET ds == deref_span(spans, a)
        help == copy_help(a, copyable)
    IN  IF TakesVec(a, clones, path_vec)
        THEN IF ds.some THEN Panicked
             ELSE [help |-> help, kind |-> "slice",
                   edits |-> <<Edit(a.span, "&[_]")>> \o CallEdits(clones, ".to_owned()")]
        ELSE IF TakesString(a, clones)
        THEN IF ds.some THEN Panicked
             ELSE [help |-> help, kind |-> "str",
                   edits |-> <<Edit(a.span, "&str")>> \o CallEdits(clones, ".to_string()")]
        ELSE [help |-> help, kind |-> "generic", edits |-> GenericEdits(a, ds, order)]

(***************************************************************************)
(* check_fn                                                                *)
(***************************************************************************)
Init ==
    /\ pc = "start"
    /\ func = NoFn
    /\ moved_vars = new.moved_vars
    /\ spans_need_deref = new.spans_need_deref
    /\ moved_roots = {}
    /\ nev = 0
    /\ idx = 0
    /\ arg = NoArg
    /\ flagged = {}
    /\ sugg = NoSugg
    /\ ev = NoEvent
    /\ id = <<>>
    /\ wpc = "idle"

walk_vars == <<ev, id, wpc>>

\* Entry of check_fn down to the call of consume_body.
CheckFn ==
    /\ pc = "start"
    /\ \E f \in Functions :
        /\ func' = f
        /\ pc' = IF Returns(f) THEN "skip" ELSE "consume_body"
    /\ UNCHANGED <<moved_vars, spans_need_deref, moved_roots, nev, idx, arg,
                   flagged, sugg, walk_vars>>

\* A consume or a match that moves the place it names.
Moving(e) ==
    \/ e.h \in {"consume", "consume_pat"} /\ e.mode = "Move"
    \/ e.h = "matched_pat" /\ e.mode = "MovingMatch"

\* consume_body: the visitor reports one more use to the delegate.
Deliver ==
    /\ pc = "consume_body"
    /\ nev < MaxEvents
    /\ \E e \in Events :
        LET t == OnEvent(Tracker, e)
        IN  /\ moved_vars' = t.moved_vars
            /\ spans_need_deref' = t.spans_need_deref
            /\ moved_roots' =
                 IF Moving(e) /\ e.cmt.root.cat = "Local"
                 THEN moved_roots \cup {e.cmt.root.vid}
                 ELSE moved_roots
    /\ nev' = nev + 1
    /\ UNCHANGED <<pc, func, idx, arg, flagged, sugg, walk_vars>>

\* consume_body returns; the loop over the parameters starts.
EndBody ==
    /\ pc = "consume_body"
    /\ pc' = "params"
    /\ UNCHANGED <<func, moved_vars, spans_need_deref, moved_roots, nev, idx,
                   arg, flagged, sugg, walk_vars>>

\* One iteration of the loop over the parameters.
CheckArg ==
    /\ pc = "params"
    /\ idx < MaxParams
    /\ \E a \in Args(idx, func) :
        /\ arg' = a
        /\ IF a.span = FnSpan
           THEN /\ pc' = "abort"
                /\ UNCHANGED <<idx, flagged, sugg>>
           ELSE IF ~Lints(a, idx, moved_vars)
           THEN /\ idx' = idx + 1
                /\ sugg' = NoSugg
                /\ UNCHANGED <<pc, flagged>>
           ELSE \E copyable \in BOOLEAN, clones \in CloneSpans, path_vec \in BOOLEAN,
                   order \in Orders(deref_span(spans_need_deref, a).set) :
                LET s == Suggest(a, spans_need_deref, copyable, clones, path_vec, order)
                IN  IF s = Panicked
                    THEN /\ pc' = "panic"
                         /\ sugg' = NoSugg
                         /\ UNCHANGED <<idx, flagged>>
                    ELSE /\ sugg' = s
                         /\ flagged' = flagged \cup {idx}
                         /\ idx' = idx + 1
                         /\ UNCHANGED pc
    /\ UNCHANGED <<func, moved_vars, spans_need_deref, moved_roots, nev, walk_vars>>

\* The parameters are exhausted: check_fn returns.
Finish ==
    /\ pc = "params"
    /\ pc' = "done"
    /\ UNCHANGED <<func, moved_vars, spans_need_deref, moved_roots, nev, idx,
                   arg, flagged, sugg, walk_vars>>

Next == CheckFn \/ Deliver \/ EndBody \/ CheckArg \/ Finish

Spec == Init /\ [][Next]_vars

(***************************************************************************)
(* The tracker on its own: the delegate handles one event after another    *)
(***************************************************************************)
driver_vars == <<pc, func, moved_roots, idx, flagged>>

\* The visitor calls the delegate with e, after at most MaxPrior other calls.
Visit ==
    /\ ev = NoEvent
    /\ nev <= MaxPrior
    /\ \E e \in Events : ev' = e
    /\ UNCHANGED <<driver_vars, moved_vars, spans_need_deref, nev, arg, sugg, id, wpc>>

\* The handler runs and returns.
Dispatch ==
    /\ ev # NoEvent
    /\ LET t == OnEvent(Tracker, ev)
       IN  /\ moved_vars' = t.moved_vars
           /\ spans_need_deref' = t.spans_need_deref
    /\ ev' = NoEvent
    /\ nev' = nev + 1
    /\ UNCHANGED <<driver_vars, arg, sugg, id, wpc>>

TrackerNext == Visit \/ Dispatch

TrackerSpec == Init /\ [][TrackerNext]_vars

(***************************************************************************)
(* The closure on its own: the body is read, then span_lint_and_then runs  *)
(* the closure for one parameter that the loop lints                       *)
(***************************************************************************)
\* An inherent-free item fn that passed the entry of check_fn.
PlainFn == [in_macro |-> FALSE, kind |-> "ItemFn", abi |-> "Rust", attrs |-> <<>>,
            parent |-> "Mod", missing |-> "none"]

SuggInit ==
    /\ pc = "consume_body"
    /\ func = PlainFn
    /\ moved_vars = new.moved_vars
    /\ spans_need_deref = new.spans_need_deref
    /\ moved_roots = {}
    /\ nev = 0
    /\ idx = 0
    /\ arg = NoArg
    /\ flagged = {}
    /\ sugg = NoSugg
    /\ ev = NoEvent
    /\ id = <<>>
    /\ wpc = "idle"

CallSugg ==
    /\ pc = "params"
    /\ arg = NoArg
    /\ \E i \in 0..(MaxParams - 1) : \E a \in Args(i, func) :
        /\ a.span # FnSpan
        /\ Lints(a, i, moved_vars)
        /\ \E copyable \in BOOLEAN, clones \in CloneSpans, path_vec \in BOOLEAN,
              order \in Orders(deref_span(spans_need_deref, a).set) :
            /\ arg' = a
            /\ sugg' = Suggest(a, spans_need_deref, copyable, clones, path_vec, order)
    /\ UNCHANGED <<driver_vars, moved_vars, spans_need_deref, nev, walk_vars>>

SuggNext == Deliver \/ EndBody \/ CallSugg

SuggSpec == SuggInit /\ [][SuggNext]_vars

(***************************************************************************)
(* non_moving_pat, one iteration of its loop at a time                     *)
(***************************************************************************)
\* matched_pat is called with a match that does not move: non_moving_pat
\* runs up to the loop.
WalkStart ==
    /\ wpc = "idle"
    /\ \E e \in Events :
        /\ e.h = "matched_pat"
        /\ e.mode # "MovingMatch"
        /\ ev' = e
        /\ IF Cat(unwrap_downcast_or_interior(e.cmt)) = "Local"
           THEN id' = e.pat /\ wpc' = "loop"
           ELSE id' = id /\ wpc' = "returned"
    /\ UNCHANGED <<driver_vars, moved_vars, spans_need_deref, nev, arg, sugg>>

\* One iteration of the loop.
WalkIter ==
    /\ wpc = "loop"
    /\ LET parent == get_parent_node(id)
           vid == unwrap_downcast_or_interior(ev.cmt).root.vid
       IN  IF AtRoot(id, parent)
           THEN /\ wpc' = "returned"
                /\ UNCHANGED <<id, spans_need_deref>>
           ELSE /\ id' = parent
                /\ spans_need_deref' = VisitNode(spans_need_deref, vid, parent)
                /\ UNCHANGED wpc
    /\ UNCHANGED <<driver_vars, moved_vars, nev, arg, sugg, ev>>

WalkNext == WalkStart \/ WalkIter

\* The loop is straight-line code of one thread: it keeps running.
WalkSpec == Init /\ [][WalkNext]_vars /\ WF_vars(WalkIter)

(***************************************************************************)
(* Properties                                                              *)
(***************************************************************************)
\* Index of the parameter a binding belongs to.
ParamOf(b) == b - 1

\* The conditions of section 4.2, as the specification lists them.
Eligible(a) ==
    /\ a.pat.ident # "self"
    /\ ~is_mutable_pointer(a.ty)
    /\ ~is_copy(a.ty)
    /\ \A t \in whitelisted_traits : ~implements_trait(a.ty, t)
    /\ \A p \in preds : p.self_ty = a.ty => p.trait # "Borrow"
    /\ ~(/\ \E p \in preds : p.self_ty = a.ty
         /\ \A p \in preds : p.self_ty = a.ty => implements_trait(mk_imm_ref(a.ty), p.trait))
    /\ a.pat.mode \notin {"Mutable", "RefMut"}
    /\ a.pat.canonical_id \notin moved_vars

C2_MovedRootNotFlagged ==
    \A b \in moved_roots : b \in moved_vars /\ ParamOf(b) \notin flagged

\* The functions the claim says are skipped.
MustSkip(f) ==
    \/ f.abi # "Rust"
    \/ f.in_macro
    \/ \E i \in DOMAIN f.attrs : f.attrs[i].name = "proc_macro_derive"
    \/ f.parent \in {"Trait", "TraitImpl"}

\* C3: a function with a non-default calling convention, from a macro, with
\* a derive-macro attribute, or that is a trait method or a method of a trait
\* impl ends in the skip state without a diagnostic, be it a free function or
\* a method; only the others are analyzed.
C3_SkippedFunctions ==
    (pc # "start" /\ MustSkip(func)) => (pc = "skip" /\ flagged = {})

\* The nearest ancestor of pattern p that is a match or a let, as its depth;
\* 0 when there is none.
NearestEnclosing(p) ==
    LET encl == {k \in 1..(Len(p) - 1) : p[k] \in {"ExprMatch", "StmtLocal"}}
    IN  IF encl = {} THEN 0 ELSE CHOOSE k \in encl : \A j \in encl : j <= k

\* C4: a NonMovingMatch event against a place rooted at a local binding adds
\* the span of the nearest enclosing match or let to the binding's entry, and
\* nothing else.
C4_NearestSpanOnly ==
    [][(/\ ev.h = "matched_pat"
        /\ ev.mode # "MovingMatch"
        /\ ev.cmt.projs \in {<<>>, <<"Interior">>, <<"Downcast">>, <<"Interior", "Downcast">>}
        /\ ev.cmt.root.cat = "Local")
       => spans_need_deref' =
            IF NearestEnclosing(ev.pat) = 0
            THEN spans_need_deref
            ELSE entry_insert(spans_need_deref, ev.cmt.root.vid,
                              BodyLo + NearestEnclosing(ev.pat))]_vars

\* C5: the assertion of the Vec and String branches never fails, and a
\* suggestion built by one of them goes with no recorded deref span and holds
\* no dereference edit.
C5_SpecializedPathNeverFails ==
    /\ pc # "panic"
    /\ sugg.kind \in {"slice", "str"} =>
         /\ arg.pat.canonical_id \notin DOMAIN spans_need_deref
         /\ \A i \in DOMAIN sugg.edits : sugg.edits[i].text # "*_"

\* C6: when a parameter's span is the function's span, no parameter of the
\* function has a diagnostic, wherever that parameter stands.
C6_AbortLeavesNoDiagnostic ==
    pc = "abort" => flagged = {}

\* The spans recorded for the binding of parameter a.
Recorded(a) ==
    IF a.pat.canonical_id \in DOMAIN spans_need_deref
    THEN spans_need_deref[a.pat.canonical_id]
    ELSE {}

\* C7: the edits of the generic fallback are one borrow edit at the
\* parameter's span and one dereference edit for each recorded span of its
\* binding, no other edit, in the order of their spans.
C7_GenericEdits ==
    sugg.kind = "generic" =>
        LET e == sugg.edits
        IN  /\ Cardinality({i \in DOMAIN e : e[i] = Edit(arg.span, "&_")}) = 1
            /\ \A sp \in Recorded(arg) :
                 Cardinality({i \in DOMAIN e : e[i] = Edit(sp, "*_")}) = 1
            /\ Len(e) = 1 + Cardinality(Recorded(arg))
            /\ \A i, j \in DOMAIN e : i < j => e[i].span <= e[j].span

\* A generic suggestion with two dereference edits.
C7_Witness ==
    /\ sugg.kind = "generic"
    /\ Cardinality(Recorded(arg)) >= 2
    /\ Len(sugg.edits) >= 3

\* The union of two tracker states.
Join(t, u) ==
    [moved_vars |-> t.moved_vars \cup u.moved_vars,
     spans_need_deref |->
        [b \in DOMAIN t.spans_need_deref \cup DOMAIN u.spans_need_deref |->
            (IF b \in DOMAIN t.spans_need_deref THEN t.spans_need_deref[b] ELSE {})
            \cup (IF b \in DOMAIN u.spans_need_deref THEN u.spans_need_deref[b] ELSE {})]]

\* C8: the result does not depend on the order of the events. Every handler
\* leaves the union of the state it found with what the same event adds to
\* an empty tracker; the state after any sequence of events is therefore the
\* union of the contributions of its events, and set union is commutative,
\* associative and idempotent.
C8_OrderIndependent ==
    [][(ev # NoEvent /\ ev' = NoEvent) => Tracker' = Join(Tracker, OnEvent(new, ev))]_vars

\* An event that adds to a tracker that already holds something.
C8_Witness ==
    /\ ev # NoEvent
    /\ Tracker # new
    /\ OnEvent(Tracker, ev) # Tracker
    /\ OnEvent(new, ev) # Tracker

\* Borrow, Mutate, a declaration without initializer, and a consume in copy
\* mode.
Inert(e) ==
    \/ e.h \in {"borrow", "mutate", "decl_without_init"}
    \/ e.h \in {"consume", "consume_pat"} /\ e.mode = "Copy"

\* C9: the handler of a Borrow or Mutate event, and of a consume in copy
\* mode, leaves MovedVariables and DerefRequiredSpans as it found them.
C9_InertEvents ==
    [][Inert(ev) => UNCHANGED <<moved_vars, spans_need_deref>>]_vars

\* A borrow or a copy of a parameter's place reaches a tracker that holds
\* something.
C9_Witness ==
    /\ Inert(ev)
    /\ ev.h # "decl_without_init"
    /\ ev.cmt.root.cat = "Local"
    /\ Tracker # new

\* No match and no let among the ancestors of pattern p.
NoEnclosing(p) == \A k \in 1..(Len(p) - 1) : p[k] = "Other"

====
